---- MODULE Spec2Model ----
(***************************************************************************)
(* Query filter values of cqlengine (cqlengine/functions.py): QueryValue,  *)
(* MinTimeUUID, MaxTimeUUID and Token, their placeholder rendering         *)
(* (__unicode__) and the way they fill the query context                   *)
(* (update_context).                                                       *)
(*                                                                         *)
(* Python values are records tagged by their type in field t:              *)
(*   [t |-> "None"]                      None                              *)
(*   [t |-> "int",  n |-> 7]             an int                            *)
(*   [t |-> "long", n |-> 1000]          a long                            *)
(*   [t |-> "str",  s |-> "us-east"]     a str                             *)
(*   [t |-> "datetime", sec, usec, tz]   a datetime: its wall clock as     *)
(*                                       whole seconds and microseconds    *)
(*                                       from 1970-01-01 00:00:00, and its *)
(*                                       tzinfo ("naive" for None)         *)
(*   [t |-> "list",  items |-> <<..>>]   a list                            *)
(*   [t |-> "tuple", items |-> <<..>>]   a tuple                           *)
(*   [t |-> "db", col, val]              what column col's to_database     *)
(*                                       returns for val                   *)
(***************************************************************************)
EXTENDS Integers, Sequences, FiniteSets, TLC

VARIABLES objs, ctx, last, done

vars == <<objs, ctx, last, done>>

(***************************************************************************)
(* Bounds of the model.                                                    *)
(***************************************************************************)
\* number of query values alive at once
MaxObjs == 3
\* longest argument list handed to Token(...)
MaxLen == 2
\* context ids 0 .. MaxId are handed out (and 9, whose successor has two digits)
MaxId == 1
\* wall-clock seconds -MaxSec .. MaxSec around the epoch
MaxSec == 1

(***************************************************************************)
(* Arbitrary-size naturals as little-endian sequences of base-1024 digits  *)
(* with no high zero digit (<<>> is 0): the integers and the 53-bit        *)
(* significands of Python's arithmetic do not fit TLC's 32-bit integers.   *)
(***************************************************************************)
RECURSIVE NatToBig(_)
NatToBig(n) == IF n = 0 THEN <<>> ELSE <<n % 1024>> \o NatToBig(n \div 1024)

RECURSIVE BigToNat(_)
BigToNat(b) == IF b = <<>> THEN 0 ELSE Head(b) + 1024 * BigToNat(Tail(b))

RECURSIVE Strip(_)
Strip(b) == IF b = <<>> \/ b[Len(b)] # 0 THEN b ELSE Strip(SubSeq(b, 1, Len(b) - 1))

\* number of bits of a small natural
RECURSIVE BitLen(_)
BitLen(n) == IF n = 0 THEN 0 ELSE 1 + BitLen(n \div 2)

\* number of bits of b
BigBitLen(b) == IF b = <<>> THEN 0 ELSE 10 * (Len(b) - 1) + BitLen(b[Len(b)])

\* b * c + carry, for c and carry below 2^20
RECURSIVE MulSmall(_, _, _)
MulSmall(b, c, carry) ==
    IF b = <<>> THEN NatToBig(carry)
    ELSE LET t == Head(b) * c + carry
         IN  Strip(<<t % 1024>> \o MulSmall(Tail(b), c, t \div 1024))

\* quotient and remainder of b by d, for d below 2^20, from the high digit down
RECURSIVE DivSmall(_, _)
DivSmall(b, d) ==
    IF b = <<>> THEN [q |-> <<>>, r |-> 0]
    ELSE LET hi == DivSmall(Tail(b), d)
             t  == 1024 * hi.r + Head(b)
         IN  [q |-> Strip(<<t \div d>> \o hi.q), r |-> t % d]

\* b * 2^k
ShiftLeft(b, k) ==
    IF b = <<>> THEN <<>>
    ELSE [i \in 1 .. (k \div 10) |-> 0] \o MulSmall(b, 2 ^ (k % 10), 0)

\* b \div 2^k
ShiftRight(b, k) ==
    IF k \div 10 >= Len(b) THEN <<>>
    ELSE DivSmall(SubSeq(b, (k \div 10) + 1, Len(b)), 2 ^ (k % 10)).q

\* b % 2^k
LowBits(b, k) ==
    IF k \div 10 >= Len(b) THEN b
    ELSE Strip(SubSeq(b, 1, k \div 10) \o <<b[(k \div 10) + 1] % (2 ^ (k % 10))>>)

DigitAt(b, i) == IF i <= Len(b) THEN b[i] ELSE 0

Rest(b) == IF b = <<>> THEN <<>> ELSE Tail(b)

RECURSIVE AddBig(_, _, _)
AddBig(a, b, carry) ==
    IF a = <<>> /\ b = <<>> THEN NatToBig(carry)
    ELSE LET t == DigitAt(a, 1) + DigitAt(b, 1) + carry
         IN  <<t % 1024>> \o AddBig(Rest(a), Rest(b), t \div 1024)

\* a - b - borrow, for a >= b + borrow
RECURSIVE SubBig(_, _, _)
SubBig(a, b, borrow) ==
    IF a = <<>> THEN <<>>
    ELSE LET t == DigitAt(a, 1) - DigitAt(b, 1) - borrow
         IN  Strip(<<t % 1024>> \o SubBig(Rest(a), Rest(b),
                                          IF t < 0 THEN 1 ELSE 0))

\* -1, 0, 1 as a < b, a = b, a > b
RECURSIVE CmpBig(_, _)
CmpBig(a, b) ==
    IF Len(a) # Len(b) THEN (IF Len(a) < Len(b) THEN -1 ELSE 1)
    ELSE IF a = <<>> THEN 0
    ELSE IF a[Len(a)] # b[Len(b)] THEN (IF a[Len(a)] < b[Len(b)] THEN -1 ELSE 1)
    ELSE CmpBig(SubSeq(a, 1, Len(a) - 1), SubSeq(b, 1, Len(b) - 1))

(***************************************************************************)
(* Python floats (IEEE 754 doubles) as sign, significand and exponent:     *)
(* [sg, m, e] is sg * m * 2^e with m of at most 53 bits.  Every operation  *)
(* computes the exact result and rounds it to nearest, ties to even.  The  *)
(* magnitudes of the model stay far from overflow and from subnormals.     *)
(***************************************************************************)
FZero == [sg |-> 1, m |-> <<>>, e |-> 0]

\* m * 2^e (plus a nonzero fraction below the last bit when sticky) rounded
\* to a 53-bit significand
Round53(sg, m, sticky, e) ==
    IF BigBitLen(m) <= 53 THEN [sg |-> sg, m |-> m, e |-> e]
    ELSE LET drop == BigBitLen(m) - 53
             hi   == ShiftRight(m, drop)
             c    == CmpBig(LowBits(m, drop), ShiftLeft(<<1>>, drop - 1))
             up   == c > 0 \/ (c = 0 /\ (sticky \/ hi[1] % 2 = 1))
         IN  [sg |-> sg, m |-> IF up THEN AddBig(hi, <<1>>, 0) ELSE hi, e |-> e + drop]

\* int / int true division: the correctly rounded quotient of sg*n by d
TrueDiv(sg, n, d) ==
    IF n = <<>> THEN FZero
    ELSE LET k  == IF 55 + BitLen(d) > BigBitLen(n) THEN 55 + BitLen(d) - BigBitLen(n) ELSE 0
             qr == DivSmall(ShiftLeft(n, k), d)
         IN  Round53(sg, qr.q, qr.r # 0, -k)

\* float - float
FSub(a, b) ==
    LET e  == IF a.e < b.e THEN a.e ELSE b.e
        A  == ShiftLeft(a.m, a.e - e)
        B  == ShiftLeft(b.m, b.e - e)
        c  == CmpBig(A, B)
    IN  IF a.sg # b.sg THEN Round53(a.sg, AddBig(A, B, 0), FALSE, e)
        ELSE IF c = 0 THEN FZero
        ELSE IF c > 0 THEN Round53(a.sg, SubBig(A, B, 0), FALSE, e)
        ELSE Round53(-a.sg, SubBig(B, A, 0), FALSE, e)

\* float * int, for an int from 1 to 2^20 (which converts to a float exactly)
FMulSmall(a, c) == Round53(a.sg, MulSmall(a.m, c, 0), FALSE, a.e)

\* a mutant of FTrunc: the floor
FFloor(a) ==
    LET whole == BigToNat(IF a.e >= 0 THEN ShiftLeft(a.m, a.e) ELSE ShiftRight(a.m, -a.e))
        exact == a.e >= 0 \/ LowBits(a.m, -a.e) = <<>>
    IN  IF a.sg = 1 \/ exact THEN a.sg * whole ELSE -whole - 1

\* long(float): the integer part, truncated toward zero
FTrunc(a) ==
    a.sg * BigToNat(IF a.e >= 0 THEN ShiftLeft(a.m, a.e) ELSE ShiftRight(a.m, -a.e))

(***************************************************************************)
(* timedelta: [sec, usec] is sec whole seconds plus usec microseconds,     *)
(* 0 <= usec < 1000000, the normalised form Python keeps (days folded into *)
(* sec).                                                                   *)
(***************************************************************************)
\* timedelta.total_seconds(): the microseconds as an integer, then / 10**6
TotalSeconds(d) ==
    IF d.sec >= 0
    THEN TrueDiv(1, MulSmall(NatToBig(d.sec), 1000000, d.usec), 1000000)
    ELSE TrueDiv(-1, MulSmall(NatToBig(-d.sec - 1), 1000000, 1000000 - d.usec), 1000000)

(***************************************************************************)
(* datetime and tzinfo.  A tzinfo is named by a string; "naive" stands for *)
(* tzinfo None.  utcoffset gets the wall clock, as tzinfo.utcoffset(dt)    *)
(* does, and returns a timedelta of whole minutes.                         *)
(***************************************************************************)
None == [t |-> "None"]

PyInt(n) == [t |-> "int", n |-> n]

Datetime(sec, usec, tz) == [t |-> "datetime", sec |-> sec, usec |-> usec, tz |-> tz]

\* tzinfo.utcoffset(dt): two fixed offsets, UTC, and a zone that moves its
\* clock from +01:00 to +02:00 at 1970-01-01T00:00:00Z
UtcOffset(tz, dt) ==
    CASE tz = "UTC"          -> [sec |-> 0, usec |-> 0]
      [] tz = "fixed+01:00"  -> [sec |-> 3600, usec |-> 0]
      [] tz = "fixed-01:00"  -> [sec |-> -3600, usec |-> 0]
      [] tz = "seasonal"     -> [sec |-> IF dt.sec < 3600 THEN 3600 ELSE 7200, usec |-> 0]

\* datetime - datetime for two datetimes of the same tzinfo: the difference
\* of the wall clocks, normalised
DatetimeSub(a, b) ==
    IF a.usec >= b.usec
    THEN [sec |-> a.sec - b.sec, usec |-> a.usec - b.usec]
    ELSE [sec |-> a.sec - b.sec - 1, usec |-> a.usec - b.usec + 1000000]

\* the value bound by MinTimeUUID.update_context and MaxTimeUUID.update_context:
\*   epoch = datetime(1970, 1, 1, tzinfo=self.value.tzinfo)
\*   offset = epoch.tzinfo.utcoffset(epoch).total_seconds() if epoch.tzinfo else 0
\*   long(((self.value - epoch).total_seconds() - offset) * 1000)
EpochMillis(value) ==
    LET epoch  == Datetime(0, 0, value.tz)
        offset == IF epoch.tz # "naive"
                  THEN TotalSeconds(UtcOffset(epoch.tz, epoch))
                  ELSE FZero
    IN  FTrunc(FMulSmall(FSub(TotalSeconds(DatetimeSub(value, epoch)), offset), 1000))

(***************************************************************************)
(* str() and str.format()                                                  *)
(***************************************************************************)
DigitChar(d) == <<"0", "1", "2", "3", "4", "5", "6", "7", "8", "9">>[d + 1]

\* str(n) of an int: its decimal digits, one character each
RECURSIVE StrInt(_)
StrInt(n) ==
    IF n < 0 THEN <<"-">> \o StrInt(-n)
    ELSE IF n < 10 THEN <<DigitChar(n)>>
    ELSE StrInt(n \div 10) \o <<DigitChar(n % 10)>>

\* str(v) and '{}'.format(v), for an int or None
Str(v) == IF v.t = "None" THEN <<"N", "o", "n", "e">> ELSE StrInt(v.n)

(***************************************************************************)
(* The query values.  An object is a record of its class and attributes;   *)
(* args is the argument tuple its constructor was called with and          *)
(* columns_set tells whether set_columns has been called on it.            *)
(***************************************************************************)
\* an attribute the object does not have
Absent == [t |-> "absent"]

NoObject ==
    [cls |-> "none", value |-> None, context_id |-> None, columns |-> Absent,
     args |-> <<>>, columns_set |-> FALSE]

IsSequence(v) == v.t \in {"list", "tuple"}

\* QueryValue.__init__
QueryValueInit(cls, value, args) ==
    [cls |-> cls, value |-> value, context_id |-> None, columns |-> Absent,
     args |-> args, columns_set |-> FALSE]

\* a mutant of IsDatetime: no check
IsAnything(v) == TRUE

\* isinstance(value, datetime) of MinTimeUUID.__init__ and MaxTimeUUID.__init__
IsDatetime(v) == v.t = "datetime"

\* a mutant of TokenValues: the first argument is unwrapped whenever it is a
\* list or a tuple
TokenValuesFirst(args) ==
    IF Len(args) >= 1 /\ IsSequence(args[1]) THEN args[1]
    ELSE [t |-> "tuple", items |-> args]

\* the value Token.__init__ stores: the single list or tuple argument itself,
\* or else the tuple of the arguments
TokenValues(args) ==
    IF Len(args) = 1 /\ IsSequence(args[1]) THEN args[1]
    ELSE [t |-> "tuple", items |-> args]

\* Token.__init__
TokenInit(args) ==
    [QueryValueInit("Token", TokenValues(args), args) EXCEPT !.columns = None]

\* a mutant of GetContextSize: Token does not override it
SizeOne(obj) == 1

\* QueryValue.get_context_size and Token.get_context_size
GetContextSize(obj) == IF obj.cls = "Token" THEN Len(obj.value.items) ELSE 1

\* the format_string of the class
FormatString(cls) ==
    CASE cls = "QueryValue"  -> [pre |-> <<>>, post |-> <<>>]
      [] cls = "MinTimeUUID" -> [pre |-> <<"MinTimeUUID(">>, post |-> <<")">>]
      [] cls = "MaxTimeUUID" -> [pre |-> <<"MaxTimeUUID(">>, post |-> <<")">>]

\* int + int; anything else (None + int) is a TypeError
CanAdd(v) == v.t = "int"

\* ', '.join(':{}'.format(self.context_id + i) for i in range(n)), from i on
RECURSIVE TokenArgs(_, _, _)
TokenArgs(id, i, n) ==
    IF i >= n THEN <<>>
    ELSE <<":">> \o StrInt(id + i)
         \o (IF i + 1 < n THEN <<", ">> ELSE <<>>) \o TokenArgs(id, i + 1, n)

\* Token.__unicode__
TokenUnicode(obj) ==
    IF GetContextSize(obj) > 0 /\ ~CanAdd(obj.context_id)
    THEN [err |-> "TypeError", out |-> <<>>]
    ELSE [err |-> "none",
          out |-> <<"token(">>
                  \o (IF GetContextSize(obj) = 0 THEN <<>>
                      ELSE TokenArgs(obj.context_id.n, 0, GetContextSize(obj)))
                  \o <<")">>]

\* QueryValue.__unicode__
QueryValueUnicode(obj) ==
    [err |-> "none",
     out |-> FormatString(obj.cls).pre \o <<":">> \o Str(obj.context_id)
             \o FormatString(obj.cls).post]

\* __unicode__: the text, as a sequence of characters and literal pieces, or
\* the exception raised
Unicode(obj) == IF obj.cls = "Token" THEN TokenUnicode(obj) ELSE QueryValueUnicode(obj)

\* ctx[key] = value
SetItem(c, key, value) ==
    [k \in DOMAIN c \cup {key} |-> IF k = key THEN value ELSE c[k]]

\* col.to_database(val) of a column
ToDatabase(col, val) == [t |-> "db", col |-> col, val |-> val]

\* how many pairs zip(self._columns, self.value) yields
ZipLen(obj) ==
    IF Len(obj.columns.items) < Len(obj.value.items)
    THEN Len(obj.columns.items) ELSE Len(obj.value.items)

\* a mutant of TokenLoop: every pair is written to the key of the context id
RECURSIVE TokenLoopNoOffset(_, _, _)
TokenLoopNoOffset(obj, c, i) ==
    IF i >= ZipLen(obj) THEN c
    ELSE TokenLoopNoOffset(obj,
                           SetItem(c, StrInt(obj.context_id.n),
                                   ToDatabase(obj.columns.items[i + 1], obj.value.items[i + 1])),
                           i + 1)

\* the loop of Token.update_context over zip(self._columns, self.value),
\* from pair i on; zip stops at the shorter of the two
RECURSIVE TokenLoop(_, _, _)
TokenLoop(obj, c, i) ==
    IF i >= ZipLen(obj) THEN c
    ELSE TokenLoop(obj,
                   SetItem(c, StrInt(obj.context_id.n + i),
                           ToDatabase(obj.columns.items[i + 1], obj.value.items[i + 1])),
                   i + 1)

\* a mutant of TokenUpdateContext: columns that are None count as no columns
TokenUpdateContextLenient(obj, c) ==
    IF ~IsSequence(obj.columns) THEN [err |-> "none", ctx |-> c]
    ELSE IF ZipLen(obj) > 0 /\ ~CanAdd(obj.context_id)
    THEN [err |-> "TypeError", ctx |-> c]
    ELSE [err |-> "none", ctx |-> TokenLoop(obj, c, 0)]

\* Token.update_context: zip raises TypeError for columns that are None,
\* None + i raises it in the first iteration
TokenUpdateContext(obj, c) ==
    IF ~IsSequence(obj.columns)
    THEN [err |-> "TypeError", ctx |-> c]
    ELSE IF ZipLen(obj) > 0 /\ ~CanAdd(obj.context_id)
    THEN [err |-> "TypeError", ctx |-> c]
    ELSE [err |-> "none", ctx |-> TokenLoop(obj, c, 0)]

\* QueryValue.update_context
QueryValueUpdateContext(obj, c) ==
    [err |-> "none", ctx |-> SetItem(c, Str(obj.context_id), obj.value)]

\* MinTimeUUID.update_context
MinTimeUUIDUpdateContext(obj, c) ==
    [err |-> "none",
     ctx |-> SetItem(c, Str(obj.context_id), [t |-> "long", n |-> EpochMillis(obj.value)])]

\* MaxTimeUUID.update_context
MaxTimeUUIDUpdateContext(obj, c) ==
    [err |-> "none",
     ctx |-> SetItem(c, Str(obj.context_id), [t |-> "long", n |-> EpochMillis(obj.value)])]

\* update_context(ctx): the context afterwards, or the exception raised
UpdateContextOf(obj, c) ==
    CASE obj.cls = "QueryValue"  -> QueryValueUpdateContext(obj, c)
      [] obj.cls = "MinTimeUUID" -> MinTimeUUIDUpdateContext(obj, c)
      [] obj.cls = "MaxTimeUUID" -> MaxTimeUUIDUpdateContext(obj, c)
      [] obj.cls = "Token"       -> TokenUpdateContext(obj, c)

(***************************************************************************)
(* The values the operations are called with.                              *)
(***************************************************************************)
SeqsUpTo(S, n) == UNION {[1 .. k -> S] : k \in 0 .. n}

Slots == 1 .. MaxObjs

Scalars == {PyInt(7), [t |-> "str", s |-> "us-east"]}

\* Token(v1, .., vn), Token([v1, .., vn]), Token((v1, .., vn)), and a list
\* followed by a scalar
TokenArgLists ==
    SeqsUpTo(Scalars, MaxLen)
    \cup {<<[t |-> c, items |-> s]>> : c \in {"list", "tuple"}, s \in SeqsUpTo(Scalars, MaxLen)}
    \cup {<<[t |-> "list", items |-> <<PyInt(7)>>], v>> : v \in Scalars}

ColumnLists ==
    {[t |-> "list", items |-> s] : s \in SeqsUpTo({"IntColumn", "TextColumn"}, MaxLen)}

ContextIds == {PyInt(k) : k \in (0 .. MaxId) \cup {9}}

Zones == {"naive", "UTC", "fixed+01:00", "fixed-01:00", "seasonal"}

\* the datetime of zone tz (UTC for "naive") that is sec seconds and usec
\* microseconds after 1970-01-01T00:00:00Z
AtInstant(sec, usec, tz) ==
    CASE tz \in {"naive", "UTC"} -> Datetime(sec, usec, tz)
      [] tz = "fixed+01:00"      -> Datetime(sec + 3600, usec, tz)
      [] tz = "fixed-01:00"      -> Datetime(sec - 3600, usec, tz)
      [] tz = "seasonal"         -> Datetime(sec + (IF sec < 0 THEN 3600 ELSE 7200), usec, tz)

\* whole seconds, a fraction of a millisecond that rounds up, whole
\* milliseconds
Datetimes ==
    {AtInstant(sec, usec, tz) : sec \in (-MaxSec) .. MaxSec, usec \in {0, 600, 1000}, tz \in Zones}

\* what MinTimeUUID(..) and MaxTimeUUID(..) are called with
TimeArgs == {PyInt(7), [t |-> "str", s |-> "1970-01-01"], Datetime(1, 0, "naive")}

\* a context as the builder hands it over: empty, or holding what another
\* part of the statement bound
Other == [t |-> "str", s |-> "other"]

FreshContexts == {<<>>, [k \in {StrInt(0)} |-> Other]}

(***************************************************************************)
(* The operations.  last is the last call and how it ended; done is the    *)
(* set of values that have filled the current context.                     *)
(***************************************************************************)
Init ==
    /\ objs = [o \in Slots |-> NoObject]
    /\ ctx \in FreshContexts
    /\ last = [op |-> "start"]
    /\ done = {}

\* QueryValue(value)
NewQueryValue(o, value) ==
    /\ objs[o].cls = "none"
    /\ objs' = [objs EXCEPT ![o] = QueryValueInit("QueryValue", value, <<value>>)]
    /\ last' = [op |-> "__init__", o |-> o, cls |-> "QueryValue", args |-> <<value>>, err |-> "none"]
    /\ UNCHANGED <<ctx, done>>

\* MinTimeUUID.__init__ and MaxTimeUUID.__init__
TimeUUIDInit(o, cls, value) ==
    /\ objs[o].cls = "none"
    /\ IF ~IsDatetime(value)
       THEN /\ last' = [op |-> "__init__", o |-> o, cls |-> cls, args |-> <<value>>,
                        err |-> "ValidationError"]
            /\ UNCHANGED objs
       ELSE /\ objs' = [objs EXCEPT ![o] = QueryValueInit(cls, value, <<value>>)]
            /\ last' = [op |-> "__init__", o |-> o, cls |-> cls, args |-> <<value>>,
                        err |-> "none"]
    /\ UNCHANGED <<ctx, done>>

\* MinTimeUUID(value)
NewMinTimeUUID(o, value) == TimeUUIDInit(o, "MinTimeUUID", value)

\* MaxTimeUUID(value)
NewMaxTimeUUID(o, value) == TimeUUIDInit(o, "MaxTimeUUID", value)

\* Token(*args)
NewToken(o, args) ==
    /\ objs[o].cls = "none"
    /\ objs' = [objs EXCEPT ![o] = TokenInit(args)]
    /\ last' = [op |-> "__init__", o |-> o, cls |-> "Token", args |-> args, err |-> "none"]
    /\ UNCHANGED <<ctx, done>>

\* a mutant of SetContextIdStep: the first id stays
SetContextIdOnceStep(o, id) ==
    /\ objs' = [objs EXCEPT ![o].context_id =
                               IF objs[o].context_id = None THEN id ELSE objs[o].context_id]
    /\ last' = [op |-> "set_context_id", o |-> o, arg |-> id, prev |-> objs[o].context_id,
                err |-> "none"]

\* the assignment of QueryValue.set_context_id
SetContextIdStep(o, id) ==
    /\ objs' = [objs EXCEPT ![o].context_id = id]
    /\ last' = [op |-> "set_context_id", o |-> o, arg |-> id, prev |-> objs[o].context_id,
                err |-> "none"]

\* value.set_context_id(id), before the value fills the context
SetContextId(o, id) ==
    /\ objs[o].cls # "none"
    /\ o \notin done
    /\ SetContextIdStep(o, id)
    /\ UNCHANGED <<ctx, done>>

\* token.set_columns(columns), before the token fills the context
SetColumns(o, columns) ==
    /\ objs[o].cls = "Token"
    /\ o \notin done
    /\ objs' = [objs EXCEPT ![o].columns = columns, ![o].columns_set = TRUE]
    /\ last' = [op |-> "set_columns", o |-> o, arg |-> columns, err |-> "none"]
    /\ UNCHANGED <<ctx, done>>

\* unicode(value)
Render(o) ==
    /\ objs[o].cls # "none"
    /\ LET r == Unicode(objs[o])
       IN  last' = [op |-> "__unicode__", o |-> o, err |-> r.err, out |-> r.out]
    /\ UNCHANGED <<objs, ctx, done>>

\* the effect of value.update_context(ctx); before is the context it was
\* called with
UpdateContextStep(o) ==
    /\ LET r == UpdateContextOf(objs[o], ctx)
       IN  /\ ctx' = r.ctx
           /\ last' = [op |-> "update_context", o |-> o, err |-> r.err, before |-> ctx]
    /\ done' = done \cup {o}
    /\ UNCHANGED objs

\* value.update_context(ctx), once for a context
UpdateContext(o) ==
    /\ objs[o].cls # "none"
    /\ o \notin done
    /\ UpdateContextStep(o)

\* the builder starts the context of another statement
FreshContext ==
    /\ done # {}
    /\ ctx' \in FreshContexts
    /\ done' = {}
    /\ last' = [op |-> "fresh"]
    /\ UNCHANGED objs

\* one query value and all its operations
Next ==
    \/ \E v \in Scalars : NewQueryValue(1, v)
    \/ \E v \in TimeArgs : NewMinTimeUUID(1, v)
    \/ \E v \in TimeArgs : NewMaxTimeUUID(1, v)
    \/ \E args \in TokenArgLists : NewToken(1, args)
    \/ \E id \in ContextIds : SetContextId(1, id)
    \/ \E columns \in ColumnLists : SetColumns(1, columns)
    \/ Render(1)
    \/ UpdateContext(1)
    \/ FreshContext

Spec == Init /\ [][Next]_vars

(***************************************************************************)
(* A time range: its lower bound in slot 1 and its upper bound in slot 2,  *)
(* numbered 0 and 1 as a builder numbers two values of context size 1, and *)
(* filling the context once numbered.                                      *)
(***************************************************************************)
InitTime ==
    /\ objs = [o \in Slots |-> NoObject]
    /\ ctx = <<>>
    /\ last = [op |-> "start"]
    /\ done = {}

NextTime ==
    \/ \E v \in Datetimes : NewMinTimeUUID(1, v)
    \/ \E v \in Datetimes : NewMaxTimeUUID(2, v)
    \/ \E o \in 1 .. 2 : objs[o].context_id = None /\ SetContextId(o, PyInt(o - 1))
    \/ \E o \in 1 .. 2 : objs[o].context_id # None /\ UpdateContext(o)

SpecTime == InitTime /\ [][NextTime]_vars

(***************************************************************************)
(* A statement builder over MaxObjs values: it numbers them cumulatively,  *)
(* the first from 0 and each next one from the previous id plus the        *)
(* previous context size, then has each fill one fresh context, in any     *)
(* order.  The tokens come with as many columns as values.                 *)
(***************************************************************************)
BuildArgs(k) == [i \in 1 .. k |-> IF i % 2 = 1 THEN PyInt(7) ELSE [t |-> "str", s |-> "us-east"]]

BuildColumns(k) ==
    [t |-> "list", items |-> [i \in 1 .. k |-> IF i % 2 = 1 THEN "IntColumn" ELSE "TextColumn"]]

BuildValues ==
    {QueryValueInit("QueryValue", PyInt(7), <<PyInt(7)>>)}
    \cup {QueryValueInit(cls, Datetime(1, 0, "naive"), <<Datetime(1, 0, "naive")>>) :
            cls \in {"MinTimeUUID", "MaxTimeUUID"}}
    \cup {[TokenInit(BuildArgs(k)) EXCEPT !.columns = BuildColumns(k), !.columns_set = TRUE] :
            k \in 0 .. MaxLen}

InitBuild ==
    /\ objs \in [Slots -> BuildValues]
    /\ ctx = <<>>
    /\ last = [op |-> "start"]
    /\ done = {}

BuilderNumber(o) ==
    /\ objs[o].context_id = None
    /\ o > 1 => objs[o - 1].context_id # None
    /\ SetContextIdStep(o, IF o = 1 THEN PyInt(0)
                           ELSE PyInt(objs[o - 1].context_id.n + GetContextSize(objs[o - 1])))
    /\ UNCHANGED <<ctx, done>>

BuilderPopulate(o) ==
    /\ \A p \in Slots : objs[p].context_id # None
    /\ o \notin done
    /\ UpdateContextStep(o)

NextBuild ==
    \/ \E o \in Slots : BuilderNumber(o)
    \/ \E o \in Slots : BuilderPopulate(o)

SpecBuild == InitBuild /\ [][NextBuild]_vars

(***************************************************************************)
(* What the properties below are stated with.                              *)
(***************************************************************************)
DigitChars == {DigitChar(d) : d \in 0 .. 9}

DigitValue(ch) == CHOOSE d \in 0 .. 9 : DigitChar(d) = ch

\* the number a string of decimal digits denotes
RECURSIVE Denoted(_)
Denoted(str) ==
    IF str = <<>> THEN 0
    ELSE 10 * Denoted(SubSeq(str, 1, Len(str) - 1)) + DigitValue(str[Len(str)])

\* the placeholder key of id n: the decimal numeral, without leading zeros,
\* that denotes n (n < 100)
KeyOf(n) ==
    CHOOSE str \in [1 .. 1 -> DigitChars] \cup [1 .. 2 -> DigitChars] :
        /\ Len(str) > 1 => str[1] # "0"
        /\ Denoted(str) = n

\* ":c, :c+1, .., :c+n-1"
RECURSIVE Markers(_, _)
Markers(c, n) ==
    IF n = 0 THEN <<>>
    ELSE Markers(c, n - 1) \o (IF n > 1 THEN <<", ">> ELSE <<>>) \o <<":">> \o KeyOf(c + n - 1)

\* the keys c .. c+n-1
KeysFrom(c, n) == {KeyOf(c + i) : i \in 0 .. n - 1}

IsToken(o) == objs[o].cls = "Token"

Rendered(o) == last.op = "__unicode__" /\ last.o = o

Populated(o) == last.op = "update_context" /\ last.o = o

\* a token with as many columns as values, and a context id
MatchedToken(o) ==
    /\ IsToken(o)
    /\ objs[o].context_id # None
    /\ IsSequence(objs[o].columns)
    /\ Len(objs[o].columns.items) = Len(objs[o].value.items)

\* a token with columns, but not as many as values
MismatchedToken(o) ==
    /\ IsToken(o)
    /\ IsSequence(objs[o].columns)
    /\ Len(objs[o].columns.items) # Len(objs[o].value.items)

(***************************************************************************)
(* C1: update_context of a token whose number of columns differs from its  *)
(* number of values raises, and leaves the context as it was.  The code    *)
(* does not: zip() pairs as many as the shorter list has and the call      *)
(* returns normally.                                                       *)
(***************************************************************************)
C1_MismatchRaises ==
    \A o \in Slots :
        (Populated(o) /\ MismatchedToken(o)) => (last.err # "none" /\ ctx = last.before)

(***************************************************************************)
(* C2: for a token of n values, with n columns and context id c,           *)
(* __unicode__ returns "token(:c, .., :c+n-1)", n placeholders in order,   *)
(* and update_context writes exactly the n entries c .. c+n-1, the entry   *)
(* c+i being columns[i].to_database(value[i]); what else the context held  *)
(* stays.                                                                  *)
(***************************************************************************)
C2_TokenPlaceholders ==
    \A o \in Slots :
        MatchedToken(o) =>
            LET c    == objs[o].context_id.n
                n    == Len(objs[o].value.items)
            IN  /\ Rendered(o) =>
                    /\ last.err = "none"
                    /\ last.out = <<"token(">> \o Markers(c, n) \o <<")">>
                    /\ Cardinality({i \in DOMAIN last.out : last.out[i] = ":"}) = n
                /\ Populated(o) =>
                    /\ last.err = "none"
                    /\ Cardinality(KeysFrom(c, n)) = n
                    /\ DOMAIN ctx = DOMAIN last.before \cup KeysFrom(c, n)
                    /\ \A i \in 0 .. n - 1 :
                          ctx[KeyOf(c + i)] =
                              ToDatabase(objs[o].columns.items[i + 1], objs[o].value.items[i + 1])
                    /\ \A k \in DOMAIN last.before \ KeysFrom(c, n) : ctx[k] = last.before[k]

\* a token of two values at context id 9 has filled the context: keys 9 and 10
C2_Witness ==
    /\ MatchedToken(1)
    /\ Populated(1)
    /\ Len(objs[1].value.items) = 2
    /\ objs[1].value.items[1] # objs[1].value.items[2]
    /\ objs[1].columns.items[1] # objs[1].columns.items[2]
    /\ objs[1].context_id = PyInt(9)
    /\ last.before # <<>>

(***************************************************************************)
(* C3: a token is constructed without columns and gets them from           *)
(* set_columns; update_context on a token set_columns was never called on  *)
(* raises and writes nothing, so it returns normally only after            *)
(* set_columns.                                                            *)
(***************************************************************************)
C3_NeedsColumns ==
    \A o \in Slots :
        /\ (last.op = "__init__" /\ last.o = o /\ IsToken(o)) => ~objs[o].columns_set
        /\ (Populated(o) /\ IsToken(o) /\ ~objs[o].columns_set) =>
               (last.err # "none" /\ ctx = last.before)
        /\ (Populated(o) /\ IsToken(o) /\ last.err = "none") => objs[o].columns_set

\* update_context was called on a token that has values and a context id, but
\* no columns yet, with a context that was not empty
C3_Witness ==
    /\ IsToken(1)
    /\ Populated(1)
    /\ ~objs[1].columns_set
    /\ Len(objs[1].value.items) = 2
    /\ objs[1].context_id # None
    /\ last.before # <<>>
    /\ last.err = "TypeError"

(***************************************************************************)
(* C4: two datetimes that are the same instant under different tzinfo      *)
(* (a naive one counting as UTC) bind the same milliseconds.  The code      *)
(* subtracts the UTC offset its tzinfo has at 1970-01-01, not the one it    *)
(* has at the datetime, and its float arithmetic depends on the wall clock. *)
(***************************************************************************)
\* the whole seconds of the instant of a datetime, from 1970-01-01T00:00:00Z
InstantSec(dt) == dt.sec - (IF dt.tz = "naive" THEN 0 ELSE UtcOffset(dt.tz, dt).sec)

SameInstant(a, b) == InstantSec(a) = InstantSec(b) /\ a.usec = b.usec

\* the lower bound and the upper bound have both filled the context
RangeBound == done = {1, 2} /\ KeyOf(0) \in DOMAIN ctx /\ KeyOf(1) \in DOMAIN ctx

\* C4: the lower bound of one datetime and the upper bound of another one that
\* is the same instant under another tzinfo bind the same milliseconds
C4_SameInstantSameMillis ==
    (RangeBound /\ SameInstant(objs[1].value, objs[2].value) /\ objs[1].value.tz # objs[2].value.tz)
        => ctx[KeyOf(0)] = ctx[KeyOf(1)]

(***************************************************************************)
(* C5: for a naive datetime t, MinTimeUUID(t) and MaxTimeUUID(t) bind the   *)
(* same milliseconds.  As claimed, that number is the seconds since the    *)
(* epoch times 1000, rounded (C5_RoundedMillis).  As the code has it       *)
(* (C5_TruncatedMillis), it is that product truncated toward zero, and     *)
(* for a whole number of milliseconds the float product may fall short of  *)
(* it, which makes the number bound one nearer to zero.                    *)
(***************************************************************************)
\* the microseconds of a naive datetime since the epoch
Micros(dt) == dt.sec * 1000000 + dt.usec

TruncDiv(a, b) == IF a >= 0 THEN a \div b ELSE -((-a) \div b)

\* a / b rounded to the nearest integer, halves away from zero
RoundDiv(a, b) == IF a >= 0 THEN (2 * a + b) \div (2 * b) ELSE -((2 * (-a) + b) \div (2 * b))

Sign(a) == IF a > 0 THEN 1 ELSE IF a < 0 THEN -1 ELSE 0

\* both bounds of the range are the same naive datetime
SameNaive == RangeBound /\ objs[1].value = objs[2].value /\ objs[1].value.tz = "naive"

C6_UnnumberedRaises ==
    \A o \in Slots :
        (objs[o].cls # "none" /\ objs[o].context_id = None) =>
            /\ Rendered(o) => (last.err # "none" /\ last.out = <<>>)
            /\ Populated(o) => (last.err # "none" /\ ctx = last.before)

(***************************************************************************)
(* C7: as claimed (C7_SingleAssignment), set_context_id on a value that    *)
(* has a context id raises and keeps the id.  As the code has it           *)
(* (C7_LastAssignmentWins), every set_context_id returns normally and the  *)
(* context id is the one just given, whatever it was before.               *)
(***************************************************************************)
\* C7, as claimed: a second set_context_id raises and the first id stays
C7_SingleAssignment ==
    (last.op = "set_context_id" /\ last.prev # None) =>
        (last.err # "none" /\ objs[last.o].context_id = last.prev)

\* C7, as the code has it: every set_context_id returns normally and sets the
\* id given; a new object has none
C7_LastAssignmentWins ==
    /\ last.op = "set_context_id" =>
           (last.err = "none" /\ objs[last.o].context_id = last.arg)
    /\ \A o \in Slots : objs[o].context_id \in {None} \cup ContextIds
    /\ (last.op = "__init__" /\ last.err = "none") => objs[last.o].context_id = None

\* a second set_context_id, with another id than the first
C7_Witness ==
    /\ last.op = "set_context_id"
    /\ last.prev = PyInt(0)
    /\ last.arg = PyInt(9)

(***************************************************************************)
(* C8: Token([v1, .., vn]), Token((v1, .., vn)) and Token(v1, .., vn) hold *)
(* the same values in the same order: a single argument is unwrapped when  *)
(* it is a list or a tuple, and otherwise the arguments are the values.    *)
(* The context size, the text and the entries written are those of that    *)
(* sequence; no argument gives size 0 and the text "token()".              *)
(***************************************************************************)
\* the sequence of values the arguments stand for
ValuesOf(args) ==
    IF Len(args) = 1 /\ args[1].t \in {"list", "tuple"} THEN args[1].items ELSE args

\* C8: the values, the context size, the text and the entries of a token are
\* those of the sequence its arguments stand for
C8_TokenArguments ==
    \A o \in Slots :
        IsToken(o) =>
            LET vals == ValuesOf(objs[o].args)
                n    == Len(vals)
            IN  /\ objs[o].value.items = vals
                /\ GetContextSize(objs[o]) = n
                /\ (Rendered(o) /\ n = 0) => last.out = <<"token(", ")">>
                /\ (Rendered(o) /\ objs[o].context_id # None) =>
                       last.out = <<"token(">> \o Markers(objs[o].context_id.n, n) \o <<")">>
                /\ (Populated(o) /\ MatchedToken(o)) =>
                       /\ DOMAIN ctx = DOMAIN last.before \cup KeysFrom(objs[o].context_id.n, n)
                       /\ \A i \in 0 .. n - 1 :
                              ctx[KeyOf(objs[o].context_id.n + i)] =
                                  ToDatabase(objs[o].columns.items[i + 1], vals[i + 1])

\* a token made from one list of two values has filled the context
C8_Witness ==
    /\ MatchedToken(1)
    /\ Populated(1)
    /\ Len(objs[1].args) = 1
    /\ objs[1].args[1].t = "list"
    /\ Len(objs[1].args[1].items) = 2
    /\ last.err = "none"

(***************************************************************************)
(* C9: MinTimeUUID(v) and MaxTimeUUID(v) raise ValidationError for a v     *)
(* that is no datetime and no object is made, so the value of every        *)
(* MinTimeUUID and MaxTimeUUID is a datetime.                              *)
(***************************************************************************)
TimeClasses == {"MinTimeUUID", "MaxTimeUUID"}

\* C9: no MinTimeUUID or MaxTimeUUID is made of a value that is no datetime
C9_TimeBoundNeedsDatetime ==
    /\ (last.op = "__init__" /\ last.cls \in TimeClasses /\ last.args[1].t # "datetime") =>
           (last.err = "ValidationError" /\ objs[last.o].cls = "none")
    /\ \A o \in Slots : objs[o].cls \in TimeClasses => objs[o].value.t = "datetime"

\* MaxTimeUUID(7) was tried
C9_Witness ==
    /\ last.op = "__init__"
    /\ last.cls = "MaxTimeUUID"
    /\ last.args = <<PyInt(7)>>
    /\ last.err = "ValidationError"

(***************************************************************************)
(* C10: values numbered cumulatively fill one fresh context, in any order, *)
(* without touching each other's entries: every update_context adds        *)
(* exactly get_context_size() entries, the keys from its context id on,    *)
(* and keeps what was there; when all are done the keys are 0 .. total-1,  *)
(* total being the sum of the context sizes.                               *)
(***************************************************************************)
RECURSIVE SizeUpTo(_)
SizeUpTo(o) == IF o = 0 THEN 0 ELSE SizeUpTo(o - 1) + GetContextSize(objs[o])

\* C10: cumulatively numbered values fill disjoint key ranges that add up to
\* 0 .. total-1
C10_CumulativeIds ==
    /\ \A o \in Slots :
           Populated(o) =>
               /\ last.err = "none"
               /\ Cardinality(DOMAIN ctx) = Cardinality(DOMAIN last.before) + GetContextSize(objs[o])
               /\ DOMAIN ctx \ DOMAIN last.before =
                      KeysFrom(objs[o].context_id.n, GetContextSize(objs[o]))
               /\ \A k \in DOMAIN last.before : ctx[k] = last.before[k]
    /\ done = Slots => DOMAIN ctx = KeysFrom(0, SizeUpTo(MaxObjs))

\* a token of two values, a plain value and another token have all filled
\* the context, the first one last
C10_Witness ==
    /\ done = Slots
    /\ IsToken(1) /\ GetContextSize(objs[1]) = 2
    /\ objs[2].cls = "QueryValue"
    /\ IsToken(3) /\ GetContextSize(objs[3]) >= 1
    /\ Populated(1)
====
